---------------------------- MODULE Spec2Model ----------------------------
(***************************************************************************)
(* A model of tf_agents/agents/categorical_dqn/categorical_dqn_agent.py:   *)
(* the batched projection project_distribution and the parts of            *)
(* CategoricalDqnAgent that build the distributional Bellman target.       *)
(*                                                                         *)
(* Numbers.  The tensors of the program hold floats.  The model computes   *)
(* with exact rationals: a source point, a reward or a discount is an      *)
(* integer (a float on a grid), a weight and every computed value is a     *)
(* fraction [num, den] with den >= 0.  den = 0 is IEEE's extension:        *)
(* num < 0 is -inf, num > 0 is +inf and 0/0 is NaN.                        *)
(* Rounding is not modelled: an equality of the model is an equality       *)
(* "within floating-point tolerance" of the program.                       *)
(*                                                                         *)
(* Tensors.  A rank-2 tensor is a sequence of rows (batch major).          *)
(* target_support, whose rank the program checks, is a record              *)
(* [shape, flat]: its shape and its elements in row-major order.           *)
(*                                                                         *)
(* Logits.  A network's output is held as its exponentials, positive       *)
(* integers u = exp(logit), so that tf.nn.softmax is exact: u / sum(u).    *)
(* The cross-entropy of lines 308-321 needs a logarithm and is not         *)
(* computed: _loss gives back the two tensors it is taken of.              *)
(*                                                                         *)
(* Objects.  A Python object is the function from the names of the         *)
(* attributes it has to their values; an attribute that may be None holds  *)
(* <<>> for None and <<v>> for the value v.                                *)
(*                                                                         *)
(* Two specifications: SpecProject calls project_distribution on its own,  *)
(* Spec constructs a CategoricalDqnAgent and computes one loss.            *)
(***************************************************************************)
EXTENDS Integers, Sequences, FiniteSets

VARIABLES
    pc,              \* "start": the arguments are bound; "done": the call returned or raised
    supports,        \* project_distribution's argument supports, (batch_size, num_dims)
    weights,         \* project_distribution's argument weights
    target_support,  \* project_distribution's argument target_support, [shape, flat]
    validate_args,   \* project_distribution's argument validate_args
    static_shapes,   \* TRUE: the tensors' static shapes are fully defined (always so in
                     \* eager execution); FALSE: they are unknown until the graph runs
    result,          \* what the call gave: [status, inner_prod, projection]; status is
                     \* "pending" before the call, "ok" when it returned, and the
                     \* name of the exception when it raised
    self,            \* the attributes of the CategoricalDqnAgent
    args,            \* the arguments of __init__, then those of _loss
    ret              \* what the last method called gave: [status, ...]

projectVars == <<supports, weights, target_support, validate_args, static_shapes,
                 result>>
agentVars == <<self, args, ret>>
vars == <<pc, projectVars, agentVars>>

---------------------------------------------------------------------------
(* Arithmetic *)

Min(a, b) == IF a <= b THEN a ELSE b
Max(a, b) == IF a >= b THEN a ELSE b
Abs(a) == IF a < 0 THEN 0 - a ELSE a

RECURSIVE SumSeq(_)
SumSeq(q) == IF q = <<>> THEN 0 ELSE q[1] + SumSeq(Tail(q))

NaN == [num |-> 0, den |-> 0]
Frac(n, d) == [num |-> n, den |-> d]

\* the product of two fractions one of which is finite: NaN stays NaN
FracMul(p, q) == Frac(p.num * q.num, p.den * q.den)

\* the sum of two fractions neither of which is infinite
FracAdd(p, q) ==
    IF p.den = 0 \/ q.den = 0 THEN NaN
    ELSE IF p.den = q.den THEN Frac(p.num + q.num, p.den)
    ELSE Frac(p.num * q.den + q.num * p.den, p.den * q.den)

\* equality of two values as numbers: NaN equals nothing
FracEq(p, q) == p.den # 0 /\ q.den # 0 /\ p.num * q.den = q.num * p.den

RECURSIVE FracSum(_)
FracSum(q) == IF q = <<>> THEN Frac(0, 1)
              ELSE IF Len(q) = 1 THEN q[1]
              ELSE FracAdd(q[1], FracSum(Tail(q)))

---------------------------------------------------------------------------
(* Shapes *)

\* tf.shape of a rank-2 tensor
Shape(m) == <<Len(m), Len(m[1])>>

Rank(t) == Len(t.shape)

\* two dimensions broadcast when they are equal or one of them is 1
Broadcastable(a, b) == a = b \/ a = 1 \/ b = 1

\* the index into a dimension of size n that broadcasting reads for index i
BIdx(i, n) == IF n = 1 THEN 1 ELSE i

---------------------------------------------------------------------------
(* project_distribution, lines 386-540.  s, w and ts are its arguments     *)
(* supports, weights and target_support; t is a rank-1 target_support's    *)
(* elements.                                                               *)

\* line 427: target_support[1:] - target_support[:-1]
target_support_deltas(t) == [i \in 1..(Len(t) - 1) |-> t[i + 1] - t[i]]

\* line 429: delta_z = target_support_deltas[0]
delta_z(t) == target_support_deltas(t)[1]

\* lines 431-433: the assertions on the static shapes, made whatever
\* validate_args is; they can only fail on a shape that is statically known
static_shape_checks(s, w, ts) ==
    /\ Shape(s) = Shape(w)
    /\ <<Len(s[1])>> = ts.shape
    /\ Rank(ts) = 1

\* lines 436-439: tf.shape(supports) equals tf.shape(weights)
assert_same_shapes(s, w) == Shape(s) = Shape(w)

\* lines 441-445: tf.shape(supports)[1] equals every element of tf.shape(target_support)
assert_num_dims(s, ts) == \A d \in 1..Rank(ts) : ts.shape[d] = Len(s[1])

\* lines 447-449: target_support has a single dimension
assert_rank_one(ts) == Rank(ts) = 1

\* lines 451-452: target_support is monotonically increasing
assert_increasing(t) == \A i \in 1..(Len(t) - 1) : target_support_deltas(t)[i] > 0

\* a slip: tf.reduce_any in the place of tf.reduce_all
assert_equally_spaced_any(t) ==
    \E i \in 1..(Len(t) - 1) : target_support_deltas(t)[i] = delta_z(t)

\* lines 454-457: the values of target_support are equally spaced
assert_equally_spaced(t) ==
    \A i \in 1..(Len(t) - 1) : target_support_deltas(t)[i] = delta_z(t)

\* a slip: the assertions made whatever validate_args is
validate_deps_always(s, w, ts, va) ==
    /\ assert_same_shapes(s, w)
    /\ assert_num_dims(s, ts)
    /\ assert_rank_one(ts)
    /\ assert_rank_one(ts) => /\ assert_increasing(ts.flat)
                              /\ assert_equally_spaced(ts.flat)

\* lines 434-459: the tf.Assert ops the projection depends on; none when
\* validate_args is False
validate_deps(s, w, ts, va) ==
    va => /\ assert_same_shapes(s, w)
          /\ assert_num_dims(s, ts)
          /\ assert_rank_one(ts)
          /\ assert_rank_one(ts) => /\ assert_increasing(ts.flat)
                                    /\ assert_equally_spaced(ts.flat)

\* a slip: the upper bound forgotten
clip_by_value_lower_only(x, lo, hi) == Max(x, lo)

\* tf.clip_by_value(x, lo, hi) = minimum(maximum(x, lo), hi)
clip_by_value(x, lo, hi) == Min(Max(x, lo), hi)

\* a slip: the supports used as they come
clipped_support_unclipped(s, t) == s

\* line 470: supports clipped to [v_min, v_max] = [target_support[0], target_support[-1]]
clipped_support(s, t) ==
    [b \in 1..Len(s) |->
        [i \in 1..Len(s[b]) |-> clip_by_value(s[b][i], t[1], t[Len(t)])]]

\* line 481: clipped_support repeated num_dims times along a new axis:
\* tiled_support[b][j][i] = clipped_support[b][i]
tiled_support(s, t) ==
    [b \in 1..Len(s) |-> [j \in 1..Len(t) |-> clipped_support(s, t)[b]]]

\* line 492: target_support[:, None] tiled batch_size times, (batch_size * num_dims, 1)
tiled_target_support(t, batch_size) ==
    [k \in 1..(batch_size * Len(t)) |-> t[((k - 1) % Len(t)) + 1]]

\* a slip: the tiled tensor read atom-major
reshaped_target_support_transposed(t, batch_size) ==
    [b \in 1..batch_size |->
        [j \in 1..Len(t) |-> tiled_target_support(t, batch_size)[(j - 1) * batch_size + b]]]

\* lines 493-494: reshaped to [batch_size, num_dims, 1]
reshaped_target_support(t, batch_size) ==
    [b \in 1..batch_size |->
        [j \in 1..Len(t) |-> tiled_target_support(t, batch_size)[(b - 1) * Len(t) + j]]]

\* a slip: the difference without tf.abs
numerator_signed(s, t) ==
    [b \in 1..Len(s) |-> [j \in 1..Len(t) |-> [i \in 1..Len(s[b]) |->
        tiled_support(s, t)[b][j][i] - reshaped_target_support(t, Len(s))[b][j]]]]

\* line 506: |tiled_support - reshaped_target_support|, (1, batch_size, num_dims, N)
numerator(s, t) ==
    [b \in 1..Len(s) |-> [j \in 1..Len(t) |-> [i \in 1..Len(s[b]) |->
        Abs(tiled_support(s, t)[b][j][i] - reshaped_target_support(t, Len(s))[b][j])]]]

\* a slip: the distance not divided by delta_z
quotient_undivided(n, dz) == Frac(1 - n, 1)

\* line 507: 1 - (numerator / delta_z), one element; a division by zero gives
\* -inf (n > 0) or NaN (n = 0)
quotient(n, dz) ==
    IF dz < 0 THEN Frac(n - dz, 0 - dz) ELSE Frac(dz - n, dz)

\* a slip: the quotient used as it comes
clipped_quotient_unclipped(q) == q

\* line 519: tf.clip_by_value(quotient, 0, 1), one element; NaN stays NaN
clipped_quotient(q) ==
    IF q.den = 0
    THEN (IF q.num = 0 THEN NaN ELSE IF q.num < 0 THEN Frac(0, 1) ELSE Frac(1, 1))
    ELSE Frac(Min(Max(q.num, 0), q.den), q.den)

\* lines 522-535: clipped_quotient * weights[:, None, :], broadcast to
\* (1, max(B, Bw), num_dims, max(N, Nw))
inner_prod(s, w, t) ==
    [b \in 1..Max(Len(s), Len(w)) |-> [j \in 1..Len(t) |->
        [i \in 1..Max(Len(s[1]), Len(w[1])) |->
            FracMul(clipped_quotient(quotient(
                        numerator(s, t)[BIdx(b, Len(s))][j][BIdx(i, Len(s[1]))],
                        delta_z(t))),
                    w[BIdx(b, Len(w))][BIdx(i, Len(w[1]))])]]]

\* lines 538-539: tf.reduce_sum(inner_prod, 3), reshaped to [batch_size, num_dims]
projection(s, w, t) ==
    [b \in 1..Len(s) |-> [j \in 1..Len(t) |-> FracSum(inner_prod(s, w, t)[b][j])]]

Raise(e) == [status |-> e, inner_prod |-> <<>>, projection |-> <<>>]

\* where an error comes from: building the graph (static shapes known) or running it
ShapeError(st) == IF st THEN "ValueError" ELSE "InvalidArgumentError"

\* the whole call
project_distribution(s, w, ts, va, st) ==
    IF Rank(ts) = 0
    THEN Raise(ShapeError(st))               \* line 427: a scalar cannot be sliced
    ELSE IF ts.shape[1] < 2
    THEN Raise(ShapeError(st))               \* line 429: index 0 of an empty tensor
    ELSE IF st /\ ~static_shape_checks(s, w, ts)
    THEN Raise("ValueError")                 \* lines 431-433
    ELSE IF ~validate_deps(s, w, ts, va)
    THEN Raise("InvalidArgumentError")       \* lines 434-459
    ELSE IF Rank(ts) # 1
    THEN Raise("InvalidArgumentError")       \* line 492: tf.tile's multiples have the wrong length
    ELSE IF ~(Broadcastable(Len(s), Len(w)) /\ Broadcastable(Len(s[1]), Len(w[1])))
    THEN Raise("InvalidArgumentError")       \* line 535: the product does not broadcast
    ELSE IF Max(Len(s), Len(w)) # Len(s)
    THEN Raise("InvalidArgumentError")       \* line 539: the reshape changes the size
    ELSE [status |-> "ok",
          inner_prod |-> inner_prod(s, w, ts.flat),
          projection |-> projection(s, w, ts.flat)]

---------------------------------------------------------------------------
(* The calls of project_distribution the model makes *)

MaxValue == 5       \* the source points lie in -1 .. MaxValue
MaxWeight == 1      \* the weights lie in 0 .. MaxWeight

SupportValues == -1..MaxValue
WeightValues == {Frac(n, 1) : n \in 0..MaxWeight}

Tensor1(t) == [shape |-> <<Len(t)>>, flat |-> t]

\* three-atom supports that meet the contract: spacing 2 (a source point can
\* lie midway between two atoms) and spacing 1
ValidTargets == {<<0, 2, 4>>, <<1, 2, 3>>}

\* three-atom supports that break it: not equally spaced, decreasing, constant
MalformedTargets == {<<0, 2, 3>>, <<4, 2, 0>>, <<2, 2, 2>>}

\* a second row for a batch of two
OtherSupports == <<5, 1, -1>>
OtherWeights == <<Frac(1, 1), Frac(0, 1), Frac(1, 1)>>

\* the arguments of one call, bound to the parameters
Call(s, w, ts, va, st) ==
    /\ supports = s
    /\ weights = w
    /\ target_support = ts
    /\ validate_args = va
    /\ static_shapes = st

\* every row of three source points with every row of weights, alone in its batch
OneRowCalls ==
    \E r \in [1..3 -> SupportValues], wr \in [1..3 -> WeightValues],
       t \in ValidTargets \cup MalformedTargets, va \in BOOLEAN :
        Call(<<r>>, <<wr>>, Tensor1(t), va, TRUE)

\* the same rows as the first and as the second row of a batch of two
TwoRowCalls ==
    \E r \in [1..3 -> SupportValues], wr \in [1..3 -> WeightValues],
       t \in ValidTargets, first \in BOOLEAN :
        Call(IF first THEN <<r, OtherSupports>> ELSE <<OtherSupports, r>>,
             IF first THEN <<wr, OtherWeights>> ELSE <<OtherWeights, wr>>,
             Tensor1(t), FALSE, TRUE)

\* tensors of every small shape: supports (B, N), weights (Bw, Nw) and a
\* target_support of rank 0, 1 or 2
Matrix(B, N, base) == [b \in 1..B |-> [i \in 1..N |-> base + b + i]]
WeightMatrix(B, N) == [b \in 1..B |-> [i \in 1..N |-> Frac(b + i - 1, 1)]]

ShapeTargets ==
    {[shape |-> <<>>, flat |-> <<2>>],
     [shape |-> <<1>>, flat |-> <<2>>],
     [shape |-> <<2>>, flat |-> <<0, 2>>],
     [shape |-> <<3>>, flat |-> <<0, 2, 4>>],
     [shape |-> <<3>>, flat |-> <<0, 2, 3>>],
     [shape |-> <<1, 3>>, flat |-> <<0, 2, 4>>],
     [shape |-> <<2, 3>>, flat |-> <<0, 2, 4, 6, 8, 10>>]}

ShapeCalls ==
    \E B \in 1..2, N \in 1..3, Bw \in 1..2, Nw \in 1..3,
       ts \in ShapeTargets, va \in BOOLEAN, st \in BOOLEAN :
        Call(Matrix(B, N, -2), WeightMatrix(Bw, Nw), ts, va, st)

\* the running example of the docstring, lines 394-404
Tenths(row) == [i \in 1..Len(row) |-> Frac(row[i], 10)]
ExampleSupports == <<<<0, 2, 4, 6, 8>>, <<1, 3, 4, 5, 6>>>>
ExampleWeights == <<Tenths(<<1, 6, 1, 1, 1>>), Tenths(<<1, 2, 5, 1, 1>>)>>
ExampleTargetSupport == <<4, 5, 6, 7, 8>>

ExampleCalls ==
    \E va \in BOOLEAN, st \in BOOLEAN :
        Call(ExampleSupports, ExampleWeights, Tensor1(ExampleTargetSupport), va, st)

ProjectCalls == OneRowCalls \/ TwoRowCalls \/ ShapeCalls \/ ExampleCalls

Pending == [status |-> "pending", inner_prod |-> <<>>, projection |-> <<>>]

InitProject ==
    /\ pc = "start"
    /\ ProjectCalls
    /\ result = Pending
    /\ self = <<>> /\ args = <<>> /\ ret = <<>>

\* the call of project_distribution on the bound arguments
ProjectDistribution ==
    /\ pc = "start"
    /\ pc' = "done"
    /\ result' = project_distribution(supports, weights, target_support,
                                      validate_args, static_shapes)
    /\ UNCHANGED <<supports, weights, target_support, validate_args, static_shapes>>
    /\ UNCHANGED agentVars

NextProject == ProjectDistribution

SpecProject == InitProject /\ [][NextProject]_vars

---------------------------------------------------------------------------
(* What the claims about project_distribution speak of *)

StrictlyIncreasing(t) == \A i \in 1..(Len(t) - 1) : t[i] < t[i + 1]
UniformlySpaced(t) == \A i \in 1..(Len(t) - 1) : t[i + 1] - t[i] = t[2] - t[1]

\* supports and weights have one shape, target_support is 1-dimensional, has
\* two atoms or more and as many as a row of supports has points
WellShaped ==
    /\ Len(supports) = Len(weights)
    /\ Len(supports[1]) = Len(weights[1])
    /\ target_support.shape = <<Len(supports[1])>>
    /\ Len(supports[1]) >= 2

\* the call meets the contract of project_distribution
ValidCall ==
    /\ WellShaped
    /\ StrictlyIncreasing(target_support.flat)
    /\ UniformlySpaced(target_support.flat)

Rows == 1..Len(supports)
Atoms == 1..Len(target_support.flat)
v_min == target_support.flat[1]
v_max == target_support.flat[Len(target_support.flat)]

\* the source point i of row b adds all of its weight to atom j and nothing
\* to any other atom
AllTo(b, i, j) ==
    \A k \in Atoms :
        FracEq(result.inner_prod[b][k][i], IF k = j THEN weights[b][i] ELSE Frac(0, 1))

\* C1: mass conservation.  On a call that meets the contract, whatever the
\* source points are (inside, below or above [v_min, v_max]), the projected
\* weights of every row sum to the weights of that row.
C1_MassConservation ==
    (pc = "done" /\ ValidCall) =>
        /\ result.status = "ok"
        /\ \A b \in Rows :
            FracEq(FracSum(result.projection[b]), FracSum(weights[b]))

\* a row with weight below v_min, inside (v_min, v_max) and above v_max
C1_Witness ==
    /\ pc = "done" /\ ValidCall /\ result.status = "ok"
    /\ \E b \in Rows : \E i, j, k \in 1..Len(supports[b]) :
        /\ supports[b][i] < v_min /\ weights[b][i].num > 0
        /\ supports[b][j] > v_max /\ weights[b][j].num > 0
        /\ v_min < supports[b][k] /\ supports[b][k] < v_max /\ weights[b][k].num > 0

\* C2: the worked example.  supports [[0,2,4,6,8],[1,3,4,5,6]] with weights
\* [[.1,.6,.1,.1,.1],[.1,.2,.5,.1,.1]] on target_support [4,5,6,7,8] projects
\* to [[.8,0,.1,0,.1],[.8,.1,.1,0,0]].
ExampleProjection == <<Tenths(<<8, 0, 1, 0, 1>>), Tenths(<<8, 1, 1, 0, 0>>)>>

IsExampleCall ==
    /\ supports = ExampleSupports
    /\ weights = ExampleWeights
    /\ target_support = Tensor1(ExampleTargetSupport)

C2_WorkedExample ==
    (pc = "done" /\ IsExampleCall) =>
        /\ result.status = "ok"
        /\ \A b \in 1..2 : \A j \in 1..5 :
            FracEq(result.projection[b][j], ExampleProjection[b][j])

C2_Witness == pc = "done" /\ IsExampleCall /\ result.status = "ok"

\* C3: clipping.  On a call that meets the contract, a source point at or
\* below v_min adds its whole weight to the first atom and nothing to any
\* other, and a source point at or above v_max adds its whole weight to the
\* last atom and nothing to any other.
C3_Clipping ==
    (pc = "done" /\ ValidCall) =>
        /\ result.status = "ok"
        /\ \A b \in Rows : \A i \in 1..Len(supports[b]) :
            /\ supports[b][i] <= v_min => AllTo(b, i, 1)
            /\ supports[b][i] >= v_max => AllTo(b, i, Len(target_support.flat))

\* weight strictly below v_min and weight strictly above v_max in one row
C3_Witness ==
    /\ pc = "done" /\ ValidCall /\ result.status = "ok"
    /\ \E b \in Rows : \E i, j \in 1..Len(supports[b]) :
        /\ supports[b][i] < v_min /\ weights[b][i].num > 0
        /\ supports[b][j] > v_max /\ weights[b][j].num > 0

\* C4: the two-point split.  On a call that meets the contract, a source
\* point midway between two adjacent atoms adds half of its weight to each of
\* the two and nothing to any other atom, and a source point on an atom adds
\* its whole weight to that atom and nothing to any other.
C4_TwoPointSplit ==
    (pc = "done" /\ ValidCall) =>
        /\ result.status = "ok"
        /\ \A b \in Rows : \A i \in 1..Len(supports[b]) : \A j \in Atoms :
            /\ supports[b][i] = target_support.flat[j] => AllTo(b, i, j)
            /\ ( /\ j < Len(target_support.flat)
                 /\ 2 * supports[b][i] = target_support.flat[j] + target_support.flat[j + 1] )
               => \A k \in Atoms :
                    FracEq(result.inner_prod[b][k][i],
                           IF k \in {j, j + 1}
                           THEN Frac(weights[b][i].num, 2 * weights[b][i].den)
                           ELSE Frac(0, 1))

\* a weighted point midway between the last two atoms and a weighted point on
\* an atom
C4_Witness ==
    /\ pc = "done" /\ ValidCall /\ result.status = "ok"
    /\ Len(target_support.flat) >= 3
    /\ \E b \in Rows : \E i, k \in 1..Len(supports[b]) :
        /\ weights[b][i].num > 0 /\ weights[b][k].num > 0
        /\ 2 * supports[b][i] = target_support.flat[2] + target_support.flat[3]
        /\ supports[b][k] = target_support.flat[2]

\* C5: the identity projection.  On a call that meets the contract, a row
\* whose source points are target_support itself, element by element, is
\* returned with its weights unchanged, whatever the other rows hold.
C5_Identity ==
    (pc = "done" /\ ValidCall) =>
        /\ result.status = "ok"
        /\ \A b \in Rows :
            supports[b] = target_support.flat =>
                \A j \in Atoms : FracEq(result.projection[b][j], weights[b][j])

\* the second row of a batch of two is target_support, the first is not
C5_Witness ==
    /\ pc = "done" /\ ValidCall /\ result.status = "ok"
    /\ Len(supports) = 2
    /\ supports[2] = target_support.flat
    /\ supports[1] # target_support.flat
    /\ \E j \in Atoms : weights[2][j].num > 0
    /\ \E j \in Atoms : weights[2][j].num = 0

\* the kinds of malformed input C6 and C7 name
ShapesDiffer == Shape(supports) # Shape(weights)
RowLengthDiffers == Rank(target_support) = 1 /\ target_support.shape # <<Len(supports[1])>>
NotOneDimensional == Rank(target_support) # 1
NotIncreasing ==
    /\ Rank(target_support) = 1 /\ Len(target_support.flat) >= 2
    /\ ~StrictlyIncreasing(target_support.flat)
NotUniform ==
    /\ Rank(target_support) = 1 /\ Len(target_support.flat) >= 2
    /\ ~UniformlySpaced(target_support.flat)

Raised == result.status \in {"ValueError", "InvalidArgumentError"}

\* C6: with validate_args enabled the call raises, and returns no projection,
\* when supports and weights differ in shape, when target_support is not
\* 1-dimensional, when it is not strictly increasing and when its differences
\* are not all equal to the first.
C6_ValidationRaises ==
    (pc = "done" /\ validate_args
        /\ (ShapesDiffer \/ NotOneDimensional \/ NotIncreasing \/ NotUniform)) =>
        /\ Raised
        /\ result.projection = <<>>

\* only the spacing is wrong, and only the run-time assertion can tell
C6_Witness ==
    /\ pc = "done" /\ validate_args /\ WellShaped
    /\ NotUniform /\ ~NotIncreasing
    /\ result.status = "InvalidArgumentError"

\* C7 as stated: with validate_args disabled no input that violates the
\* contract raises.
C7_NeverRaisesWithoutValidation ==
    (pc = "done" /\ ~validate_args
        /\ (ShapesDiffer \/ RowLengthDiffers \/ NotOneDimensional
            \/ NotIncreasing \/ NotUniform)) =>
        result.status = "ok"

\* C7, amended: with validate_args disabled a call whose shapes are well
\* formed raises nothing, however malformed the values of target_support are
\* (not increasing, not equally spaced); a violation of the shapes still
\* raises ValueError when the static shapes are known (lines 431-433), and a
\* target_support that is not 1-dimensional always raises.
C7_OnlyShapesRaiseWithoutValidation ==
    (pc = "done" /\ ~validate_args) =>
        /\ WellShaped => result.status = "ok"
        /\ (static_shapes /\ (ShapesDiffer \/ RowLengthDiffers \/ NotOneDimensional))
            => result.status = "ValueError"
        /\ NotOneDimensional => Raised

\* a decreasing and a not equally spaced target_support went through
C7_Witness ==
    /\ pc = "done" /\ ~validate_args /\ WellShaped
    /\ NotUniform
    /\ result.status = "ok"

---------------------------------------------------------------------------
(* Python objects *)

None == <<>>
Some(v) == <<v>>

getattr(o, name, default) == IF name \in DOMAIN o THEN o[name] ELSE default

\* o with the attributes of the record r set
SetAttrs(o, r) ==
    [a \in (DOMAIN o) \cup (DOMAIN r) |-> IF a \in DOMAIN r THEN r[a] ELSE o[a]]

---------------------------------------------------------------------------
(* CategoricalDqnAgent.__init__, lines 48-157.  a holds its arguments. *)

\* line 125: tf.linspace(start, stop, num); the model constructs agents whose
\* atoms fall on integers
linspace(start, stop, num) ==
    [i \in 1..num |-> start + ((i - 1) * (stop - start)) \div (num - 1)]

\* a slip: n-step updates let through whatever the network
DqnAgent_init_any_network(o, a) ==
    [self |-> SetAttrs(o, [q_network |-> a.categorical_q_network,
                           target_q_network |-> a.categorical_q_network,
                           n_step_update |-> a.n_step_update,
                           boltzmann_temperature |-> a.boltzmann_temperature]),
     status |-> "ok"]

\* lines 127-144: DqnAgent.__init__, of tf_agents/agents/dqn/dqn_agent.py.
\* It keeps the network, its copy the target network and the parameters of
\* the update, and refuses n-step updates with a stateful network.
DqnAgent_init(o, a) ==
    IF a.categorical_q_network.state_spec # <<>> /\ a.n_step_update # 1
    THEN [self |-> o, status |-> "NotImplementedError"]
    ELSE [self |-> SetAttrs(o, [q_network |-> a.categorical_q_network,
                                target_q_network |-> a.categorical_q_network,
                                n_step_update |-> a.n_step_update,
                                boltzmann_temperature |-> a.boltzmann_temperature]),
          status |-> "ok"]

\* lines 146-150
CategoricalQPolicy(min_q_value, max_q_value, q_network) ==
    [kind |-> "CategoricalQPolicy", min_q_value |-> min_q_value,
     max_q_value |-> max_q_value, q_network |-> q_network]

\* lines 151-156
collect_policy(o, a, policy) ==
    IF a.boltzmann_temperature # None
    THEN [kind |-> "BoltzmannPolicy", policy |-> policy,
          temperature |-> o.boltzmann_temperature]
    ELSE [kind |-> "EpsilonGreedyPolicy", policy |-> policy]

\* a slip: the value range kept on the agent before num_atoms is looked at
CategoricalDqnAgent_init_attributes_first(o, a) ==
    LET num_atoms == getattr(a.categorical_q_network, "num_atoms", None)
        s0 == SetAttrs(o, [min_q_value |-> a.min_q_value,
                           max_q_value |-> a.max_q_value])
    IN  IF num_atoms = None
        THEN [self |-> s0, status |-> "TypeError"]
        ELSE
          LET s1 == SetAttrs(s0, [num_atoms |-> num_atoms[1],
                                  support |-> linspace(a.min_q_value, a.max_q_value,
                                                       num_atoms[1])])
              p == DqnAgent_init(s1, a)
              policy == CategoricalQPolicy(a.min_q_value, a.max_q_value,
                                           p.self.q_network)
          IN  IF p.status # "ok"
              THEN p
              ELSE [self |-> SetAttrs(p.self,
                                [collect_policy |-> collect_policy(p.self, a, policy),
                                 policy |-> [kind |-> "GreedyPolicy", policy |-> policy]]),
                    status |-> "ok"]

\* the whole constructor: [self, status]
CategoricalDqnAgent_init(o, a) ==
    LET num_atoms == getattr(a.categorical_q_network, "num_atoms", None)    \* line 115
    IN  IF num_atoms = None
        THEN [self |-> o, status |-> "TypeError"]                           \* lines 116-120
        ELSE
          LET s1 == SetAttrs(o, [num_atoms |-> num_atoms[1],                \* lines 122-125
                                 min_q_value |-> a.min_q_value,
                                 max_q_value |-> a.max_q_value,
                                 support |-> linspace(a.min_q_value, a.max_q_value,
                                                      num_atoms[1])])
              p == DqnAgent_init(s1, a)                                     \* lines 127-144
              policy == CategoricalQPolicy(a.min_q_value, a.max_q_value,
                                           p.self.q_network)
          IN  IF p.status # "ok"
              THEN p
              ELSE [self |-> SetAttrs(p.self,
                                [collect_policy |-> collect_policy(p.self, a, policy),
                                 policy |-> [kind |-> "GreedyPolicy", policy |-> policy]]),
                    status |-> "ok"]

---------------------------------------------------------------------------
(* CategoricalDqnAgent._loss and _next_q_distribution, lines 159-380.      *)
(* An experience is a Trajectory [observation, action, reward, discount],  *)
(* each [batch][time]; an observation is an identifier, and a network is   *)
(* the function from observations to its output on them, [action][atom].   *)

AllButLast(q) == SubSeq(q, 1, Len(q) - 1)

RECURSIVE Concat(_)
Concat(x) == IF x = <<>> THEN <<>> ELSE x[1] \o Concat(Tail(x))

\* BatchSquash.flatten: [B, T, ...] to [B * T, ...]
batch_squash_flatten(x) == Concat(x)

\* BatchSquash.unflatten: [B * T, ...] back to [B, T, ...]
batch_squash_unflatten(x, B, T) ==
    [b \in 1..B |-> [tt \in 1..T |-> x[(b - 1) * T + tt]]]

\* a field [batch][time] without its time dimension when that is squeezed
Squeeze(x) == [b \in 1..Len(x) |-> x[b][1]]

\* trajectory.to_transition (tf_agents/trajectories/trajectory.py): the
\* steps but the last, their actions, and the steps that follow them, which
\* carry the reward and the discount of the steps they follow
to_transition(experience) ==
    [time_steps |->
        [observation |-> [b \in 1..Len(experience.observation) |->
                            AllButLast(experience.observation[b])]],
     actions |-> [b \in 1..Len(experience.action) |-> AllButLast(experience.action[b])],
     next_time_steps |->
        [observation |-> [b \in 1..Len(experience.observation) |->
                            Tail(experience.observation[b])],
         reward |-> [b \in 1..Len(experience.reward) |-> AllButLast(experience.reward[b])],
         discount |-> [b \in 1..Len(experience.discount) |->
                            AllButLast(experience.discount[b])]]]

\* DqnAgent._experience_to_transitions (dqn_agent.py): the transitions of
\* the experience, without their time dimension unless the network is stateful
experience_to_transitions(o, experience) ==
    LET tr == to_transition(experience)
    IN  IF o.q_network.state_spec # <<>>
        THEN tr
        ELSE [time_steps |-> [observation |-> Squeeze(tr.time_steps.observation)],
              actions |-> Squeeze(tr.actions),
              next_time_steps |->
                [observation |-> Squeeze(tr.next_time_steps.observation),
                 reward |-> Squeeze(tr.next_time_steps.reward),
                 discount |-> Squeeze(tr.next_time_steps.discount)]]

\* x[:, :2] and x[:, -2:] of every field, lines 199-200
first_two_steps(experience) ==
    [f \in DOMAIN experience |->
        [b \in 1..Len(experience[f]) |-> SubSeq(experience[f][b], 1, 2)]]
last_two_steps(experience) ==
    [f \in DOMAIN experience |->
        [b \in 1..Len(experience[f]) |->
            SubSeq(experience[f][b], Len(experience[f][b]) - 1, Len(experience[f][b]))]]

\* lines 192-202: time_steps, actions and next_time_steps
transitions(o, experience) ==
    IF o.n_step_update = 1
    THEN experience_to_transitions(o, experience)
    ELSE [time_steps |->
            experience_to_transitions(o, first_two_steps(experience)).time_steps,
          actions |-> experience_to_transitions(o, first_two_steps(experience)).actions,
          next_time_steps |->
            experience_to_transitions(o, last_two_steps(experience)).next_time_steps]

\* lines 209-210: nest_utils.get_outer_rank of the observations
outer_rank(o) == IF o.q_network.state_spec # <<>> THEN 2 ELSE 1

\* lines 214-216
batch_squash(o) ==
    IF outer_rank(o) <= 1 \/ o.q_network.state_spec = <<>>
    THEN None
    ELSE Some(outer_rank(o))

\* a network applied to a batch of observations, [batch] or [batch][time]
apply_network(net, observation, rank) ==
    IF rank = 1
    THEN [b \in 1..Len(observation) |-> net[observation[b]]]
    ELSE [b \in 1..Len(observation) |->
            [tt \in 1..Len(observation[b]) |-> net[observation[b][tt]]]]

\* a slip: the online network asked in the place of the target network
next_target_logits_online(nets, next_time_steps, rank, squash) ==
    IF squash # None
    THEN batch_squash_flatten(
            apply_network(nets.q_network, next_time_steps.observation, rank))
    ELSE apply_network(nets.q_network, next_time_steps.observation, rank)

\* lines 368-371: the target network's output on the next observations
next_target_logits(nets, next_time_steps, rank, squash) ==
    IF squash # None
    THEN batch_squash_flatten(
            apply_network(nets.target_q_network, next_time_steps.observation, rank))
    ELSE apply_network(nets.target_q_network, next_time_steps.observation, rank)

\* tf.nn.softmax over the last axis, of one row of exponentials
softmax(u) == [k \in 1..Len(u) |-> Frac(u[k], SumSeq(u))]

\* line 373
next_target_probabilities(logits) ==
    [b \in 1..Len(logits) |-> [a \in 1..Len(logits[b]) |-> softmax(logits[b][a])]]

\* lines 374-375: tf.reduce_sum(self._support * next_target_probabilities, axis=-1)
next_target_q_values(support, probabilities) ==
    [b \in 1..Len(probabilities) |-> [a \in 1..Len(probabilities[b]) |->
        FracSum([k \in 1..Len(support) |->
                    FracMul(Frac(support[k], 1), probabilities[b][a][k])])]]

FracLess(p, q) == p.num * q.den < q.num * p.den

\* line 376: tf.argmax over the actions: an index of a largest element.  Among
\* equal largest elements TensorFlow does not say which index it returns.
argmax(row) == {a \in 1..Len(row) : \A a2 \in 1..Len(row) : ~FracLess(row[a], row[a2])}

\* the indices tf.argmax may return for every element of the batch
argmax_choices(q_values) ==
    {pick \in [1..Len(q_values) -> 1..Len(q_values[1])] :
        \A b \in 1..Len(q_values) : pick[b] \in argmax(q_values[b])}

\* lines 377-380: the row of probabilities of the chosen action
next_q_distribution(o, nets, next_time_steps, rank, squash, pick) ==
    [b \in 1..Len(pick) |->
        next_target_probabilities(
            next_target_logits(nets, next_time_steps, rank, squash))[b][pick[b]]]

\* lines 239-241: self._support tiled batch_size times and reshaped to
\* [batch_size, num_atoms]
loss_tiled_support(o, batch_size) ==
    [b \in 1..batch_size |-> [k \in 1..o.num_atoms |->
        [m \in 1..(batch_size * Len(o.support)) |->
            o.support[((m - 1) % Len(o.support)) + 1]][(b - 1) * o.num_atoms + k]]]

\* a slip: the discount factor gamma left out
one_step_target_support_undiscounted(next_time_steps, gamma, reward_scale_factor, tiled) ==
    [b \in 1..Len(tiled) |-> [k \in 1..Len(tiled[b]) |->
        reward_scale_factor * next_time_steps.reward[b]
            + next_time_steps.discount[b] * tiled[b][k]]]

\* lines 243-263: the target support of the 1-step update
one_step_target_support(next_time_steps, gamma, reward_scale_factor, tiled) ==
    [b \in 1..Len(tiled) |-> [k \in 1..Len(tiled[b]) |->
        reward_scale_factor * next_time_steps.reward[b]
            + gamma * (next_time_steps.discount[b] * tiled[b][k])]]

RECURSIVE discounted_return(_, _, _)
\* value_ops.discounted_return (tf_agents/utils/value_ops.py) of one row, with
\* provide_all_returns=False: the return of the first step,
\* rewards[0] + discounts[0] * (the return of the steps after it)
discounted_return(rewards, discounts, final_value) ==
    IF rewards = <<>> THEN final_value
    ELSE rewards[1] + discounts[1] * discounted_return(Tail(rewards), Tail(discounts),
                                                       final_value)

RECURSIVE reduce_prod(_)
\* tf.reduce_prod of one row
reduce_prod(q) == IF q = <<>> THEN 1 ELSE q[1] * reduce_prod(Tail(q))

\* lines 268-269: the scaled rewards and discounts of a row without the last
\* time index
n_step_rewards(row, reward_scale_factor) ==
    [tt \in 1..(Len(row) - 1) |-> reward_scale_factor * row[tt]]
\* a slip: the last time index kept
n_step_discounts_all(row, gamma) ==
    [tt \in 1..Len(row) |-> gamma * row[tt]]
n_step_discounts(row, gamma) ==
    [tt \in 1..(Len(row) - 1) |-> gamma * row[tt]]

\* lines 264-294: the target support of the n-step update, with the two
\* tensors kept for the unit tests
n_step_target_support(experience, gamma, reward_scale_factor, tiled) ==
    LET discounted_returns ==
            [b \in 1..Len(tiled) |->
                discounted_return(n_step_rewards(experience.reward[b], reward_scale_factor),
                                  n_step_discounts(experience.discount[b], gamma), 0)]
        final_value_discount ==
            [b \in 1..Len(tiled) |->
                reduce_prod(n_step_discounts(experience.discount[b], gamma))]
    IN  [discounted_returns |-> discounted_returns,
         final_value_discount |-> final_value_discount,
         target_support |->
            [b \in 1..Len(tiled) |-> [k \in 1..Len(tiled[b]) |->
                discounted_returns[b] + final_value_discount[b] * tiled[b][k]]]]

RECURSIVE Rows2(_, _)
\* the rank-2 tensor m as a tensor of values: its first n rows, computed once
Rows2(m, n) == IF n = 0 THEN <<>> ELSE Append(Rows2(m, n - 1), m[n] \o <<>>)
Tensor2(m) == Rows2(m, Cardinality(DOMAIN m))

\* lines 300-303: the logits of the actions taken
chosen_action_logits(q_logits, actions) ==
    [b \in 1..Len(q_logits) |-> q_logits[b][actions[b]]]

\* the value tf.argmax takes is given by pick; the whole method: [self, ret]
loss(o, a, pick) ==
    LET tr == transitions(o, a.experience)                                    \* 192-202
        rank == outer_rank(o)                                                 \* 209-210
        squash == batch_squash(o)                                             \* 214-216
        q_logits0 == apply_network(a.nets.q_network, tr.time_steps.observation, rank)
        next_q == next_q_distribution(o, a.nets, tr.next_time_steps, rank, squash, pick)
        q_logits == IF squash # None THEN batch_squash_flatten(q_logits0) ELSE q_logits0
        actions == IF squash # None THEN batch_squash_flatten(tr.actions) ELSE tr.actions
        next_time_steps ==
            IF squash # None
            THEN [f \in DOMAIN tr.next_time_steps |->
                    batch_squash_flatten(tr.next_time_steps[f])]
            ELSE tr.next_time_steps
        batch_size == Len(q_logits)                                           \* 239
        tiled == loss_tiled_support(o, batch_size)
        n_step == n_step_target_support(a.experience, a.gamma,
                                        a.reward_scale_factor, tiled)
        target == IF o.n_step_update = 1                                      \* 243
                  THEN one_step_target_support(next_time_steps, a.gamma,
                                               a.reward_scale_factor, tiled)
                  ELSE n_step.target_support
        projected == project_distribution(Tensor2(target), Tensor2(next_q),   \* 296-297
                                          Tensor1(o.support), FALSE, TRUE)
        chosen == chosen_action_logits(q_logits, actions)
        B == Len(a.experience.reward)
        o2 == IF o.n_step_update = 1
              THEN o
              ELSE SetAttrs(o, [discounted_returns |-> n_step.discounted_returns,   \* 289-290
                                final_value_discount |-> n_step.final_value_discount])
    IN  IF projected.status # "ok"
        THEN [self |-> o2, ret |-> [status |-> projected.status]]
        ELSE [self |-> o2,
              ret |-> [status |-> "ok",
                       next_q_distribution |-> next_q,
                       target_support |-> target,
                       target_distribution |->
                            IF squash # None                                  \* 308-310
                            THEN batch_squash_unflatten(projected.projection, B,
                                                        batch_size \div B)
                            ELSE projected.projection,
                       chosen_action_logits |->
                            IF squash # None
                            THEN batch_squash_unflatten(chosen, B, batch_size \div B)
                            ELSE chosen]]

\* the expected values tf.argmax is taken of in loss(o, a, _)
loss_q_values(o, a) ==
    next_target_q_values(o.support,
        next_target_probabilities(
            next_target_logits(a.nets, transitions(o, a.experience).next_time_steps,
                               outer_rank(o), batch_squash(o))))

---------------------------------------------------------------------------
(* The agents the model constructs and the losses it computes *)

MaxNStep == 2       \* n_step_update lies in 1 .. MaxNStep
MaxReward == 1      \* a reward lies in 0 .. MaxReward
MaxExpLogit == 2    \* the exponential of a logit lies in 1 .. MaxExpLogit

\* a network: without the attribute num_atoms, with num_atoms None, with two
\* and with three atoms; stateless (state_spec ()) or recurrent
Networks ==
    {[state_spec |-> ss] : ss \in {<<>>, <<"lstm_state">>}}
    \cup {[num_atoms |-> n, state_spec |-> ss] :
            n \in {None, Some(2), Some(3)}, ss \in {<<>>, <<"lstm_state">>}}

\* every network under two value ranges and every n_step_update; the
\* Boltzmann collect policy is asked for with 1-step updates
ConstructorArgs ==
    UNION {{[categorical_q_network |-> net, min_q_value |-> v[1],
             max_q_value |-> v[2], n_step_update |-> n,
             boltzmann_temperature |-> bt] :
                net \in Networks, v \in {<<0, 4>>, <<-2, 2>>},
                bt \in IF n = 1 THEN {None, Some(1)} ELSE {None}} :
           n \in 1..MaxNStep}

\* a trajectory of B rows and T steps: the first row is given, a second row
\* has reward 1 and discount 1 throughout; observation b, t is (b - 1) * T + t
Trajectory(B, T, reward, discount) ==
    [observation |-> [b \in 1..B |-> [tt \in 1..T |-> (b - 1) * T + tt]],
     action |-> [b \in 1..B |-> [tt \in 1..T |-> ((b + tt) % 2) + 1]],
     reward |-> [b \in 1..B |-> IF b = 1 THEN reward ELSE [tt \in 1..T |-> 1]],
     discount |-> [b \in 1..B |-> IF b = 1 THEN discount ELSE [tt \in 1..T |-> 1]]]

\* a network of two actions and K atoms on the observations 1 .. N
Network(seed, N, K) ==
    [id \in 1..N |-> [a \in 1..2 |-> [k \in 1..K |->
        1 + ((seed + id + a * k) % MaxExpLogit)]]]

\* every reward and discount of the first row of a batch of two, under two
\* networks that differ
ExperienceArgs(o) ==
    LET T == o.n_step_update + 1
    IN  {[experience |-> Trajectory(2, T, reward, discount),
          gamma |-> gamma, reward_scale_factor |-> scale,
          nets |-> [q_network |-> Network(0, 2 * T, o.num_atoms),
                    target_q_network |-> Network(1, 2 * T, o.num_atoms)]] :
            reward \in [1..T -> 0..MaxReward], discount \in [1..T -> {0, 1}],
            gamma \in {1, 2}, scale \in {1, 3}}

\* every output of the target network on the last observation of the first row
NetworkArgs(o) ==
    LET T == o.n_step_update + 1
    IN  {[experience |-> Trajectory(B, T, [tt \in 1..T |-> 1], [tt \in 1..T |-> 1]),
          gamma |-> 1, reward_scale_factor |-> 1,
          nets |-> [q_network |-> Network(0, B * T, o.num_atoms),
                    target_q_network |->
                        [id \in 1..(B * T) |->
                            IF id = T THEN out ELSE Network(1, B * T, o.num_atoms)[id]]]] :
            B \in 1..2, out \in [1..2 -> [1..o.num_atoms -> 1..MaxExpLogit]]}

LossArgs(o) == ExperienceArgs(o) \cup NetworkArgs(o)

Init ==
    /\ pc = "new"
    /\ self = <<>>
    /\ args \in ConstructorArgs
    /\ ret = <<>>
    /\ supports = <<>> /\ weights = <<>> /\ target_support = <<>>
    /\ validate_args = FALSE /\ static_shapes = FALSE /\ result = <<>>

\* CategoricalDqnAgent(...): the constructor on the bound arguments
Construct ==
    /\ pc = "new"
    /\ LET c == CategoricalDqnAgent_init(self, args)
       IN  /\ self' = c.self
           /\ ret' = [status |-> c.status]
           /\ pc' = IF c.status = "ok" THEN "ready" ELSE "failed"
    /\ UNCHANGED <<args, projectVars>>

\* agent._loss(experience, gamma=..., reward_scale_factor=...)
Loss ==
    /\ pc = "ready"
    /\ \E a \in LossArgs(self) : \E pick \in argmax_choices(loss_q_values(self, a)) :
        LET l == loss(self, a, pick)
        IN  /\ args' = a
            /\ self' = l.self
            /\ ret' = l.ret
    /\ pc' = "done"
    /\ UNCHANGED projectVars

Next == Construct \/ Loss

Spec == Init /\ [][Next]_vars

---------------------------------------------------------------------------
(* What the claims about _loss and _next_q_distribution speak of *)

Computed == pc = "done" /\ ret.status = "ok"

LossRows == 1..Len(args.experience.reward)
LastIndex == Len(args.experience.reward[1])

\* the product of gamma * discount over the time indices 1 .. n of row b
RECURSIVE DiscountProduct(_, _)
DiscountProduct(b, n) ==
    IF n = 0 THEN 1
    ELSE DiscountProduct(b, n - 1) * (args.gamma * args.experience.discount[b][n])

\* the sum over the time indices 1 .. n of row b of the scaled reward,
\* discounted by the steps before it
RECURSIVE DiscountedSum(_, _)
DiscountedSum(b, n) ==
    IF n = 0 THEN 0
    ELSE DiscountedSum(b, n - 1)
         + DiscountProduct(b, n - 1)
           * (args.reward_scale_factor * args.experience.reward[b][n])

\* C8: the 1-step branch and the n-step branch agree on a window of one
\* step.  For every experience of two steps, gamma and reward_scale_factor,
\* the target support the 1-step branch builds is, row by row and atom by
\* atom, the one the n-step branch builds from that experience, and both are
\* reward_scale_factor * reward + gamma * discount * support.
C8_OneStepIsNStepOfOne ==
    (Computed /\ self.n_step_update = 1) =>
        /\ ret.target_support =
              n_step_target_support(args.experience, args.gamma, args.reward_scale_factor,
                                    loss_tiled_support(self, Len(args.experience.reward))
                                   ).target_support
        /\ \A b \in LossRows : \A k \in 1..self.num_atoms :
              ret.target_support[b][k] =
                  args.reward_scale_factor * args.experience.reward[b][1]
                  + args.gamma * args.experience.discount[b][1] * self.support[k]

\* gamma and the scale are not 1, the reward and the discount of the step are
\* not 0 and the last time index holds another reward
C8_Witness ==
    /\ Computed /\ self.n_step_update = 1
    /\ args.gamma = 2 /\ args.reward_scale_factor = 3
    /\ args.experience.reward[1] = <<1, 0>>
    /\ args.experience.discount[1] = <<1, 0>>
    /\ Len(args.experience.reward) = 2

\* C9: the n-step target support.  When n_step_update > 1 the target support
\* of row b is discounted_return[b] + discount_product[b] * support, the
\* discounted sum of the scaled rewards and the product of gamma * discount
\* being taken over every time index but the last.
C9_NStepTargetSupport ==
    (Computed /\ self.n_step_update > 1) =>
        \A b \in LossRows : \A k \in 1..self.num_atoms :
            ret.target_support[b][k] =
                DiscountedSum(b, LastIndex - 1)
                + DiscountProduct(b, LastIndex - 1) * self.support[k]

\* every step but the last is rewarded and goes on, the last index holds a
\* reward and a discount of 0, gamma and the scale are not 1
C9_Witness ==
    /\ Computed /\ self.n_step_update > 1
    /\ args.gamma = 2 /\ args.reward_scale_factor = 3
    /\ \A tt \in 1..(LastIndex - 1) :
        args.experience.reward[1][tt] = 1 /\ args.experience.discount[1][tt] = 1
    /\ args.experience.reward[1][LastIndex] = 0
    /\ args.experience.discount[1][LastIndex] = 0

\* the output of a network on the next observation of row b: the last of the row
NextOutput(net, b) == net[args.experience.observation[b][LastIndex]]

\* sum_k support[k] * u[k], the expected value of the row u times its sum
WeightedSum(u) == SumSeq([k \in 1..Len(u) |-> self.support[k] * u[k]])

\* the expected value of the softmax of u is at least that of v
AtLeast(u, v) == WeightedSum(u) * SumSeq(v) >= WeightedSum(v) * SumSeq(u)

\* the row p of probabilities is the softmax of u
IsSoftmaxOf(p, u) ==
    /\ Len(p) = Len(u)
    /\ \A k \in 1..Len(u) : FracEq(p[k], Frac(u[k], SumSeq(u)))

\* C10: the greedy next-state distribution.  For every element of the batch
\* _next_q_distribution gives the softmax row of an action whose expected
\* value sum_k support[k] * prob[action, k] is the largest, the probabilities
\* being those of the target network on the next observation.
C10_GreedyNextDistribution ==
    Computed =>
        \A b \in LossRows :
            \E a \in 1..Len(NextOutput(args.nets.target_q_network, b)) :
                /\ IsSoftmaxOf(ret.next_q_distribution[b],
                               NextOutput(args.nets.target_q_network, b)[a])
                /\ \A a2 \in 1..Len(NextOutput(args.nets.target_q_network, b)) :
                    AtLeast(NextOutput(args.nets.target_q_network, b)[a],
                            NextOutput(args.nets.target_q_network, b)[a2])

\* the target network strictly prefers the second action on the next
\* observation, the online network strictly prefers the first
C10_Witness ==
    /\ Computed
    /\ ~AtLeast(NextOutput(args.nets.target_q_network, 1)[1],
                NextOutput(args.nets.target_q_network, 1)[2])
    /\ ~AtLeast(NextOutput(args.nets.q_network, 1)[2],
                NextOutput(args.nets.q_network, 1)[1])
    /\ IsSoftmaxOf(ret.next_q_distribution[1],
                   NextOutput(args.nets.target_q_network, 1)[2])

---------------------------------------------------------------------------
(* What the claims about the constructor speak of *)

\* the agent asked for, or made, updates over n > 1 steps with a network
\* that has a state: the constructor's arguments until a loss is computed,
\* the agent's attributes after
NStepWithStatefulNetwork ==
    IF pc = "done"
    THEN self.n_step_update > 1 /\ self.q_network.state_spec # <<>>
    ELSE args.n_step_update > 1 /\ args.categorical_q_network.state_spec # <<>>

\* C11: n-step updates with a stateful network are a configuration error.
\* Once the constructor has run on n_step_update > 1 and a network of
\* non-empty state_spec it has failed with an error, no agent is ready for
\* _loss, and no loss is ever computed by an agent of that combination.
C11_NStepStatefulIsAnError ==
    (pc # "new" /\ NStepWithStatefulNetwork) =>
        /\ pc = "failed"
        /\ ret.status \in {"TypeError", "NotImplementedError"}

\* the network has num_atoms, so that the parent's constructor is reached,
\* and it is there that the combination is refused
C11_Witness ==
    /\ pc = "failed"
    /\ NStepWithStatefulNetwork
    /\ getattr(args.categorical_q_network, "num_atoms", None) # None
    /\ ret.status = "NotImplementedError"

\* the network given to the constructor has no attribute num_atoms, or has
\* it None; a network that has it is the agent's q_network ever after
WithoutNumAtoms ==
    IF pc = "done"
    THEN getattr(self.q_network, "num_atoms", None) = None
    ELSE getattr(args.categorical_q_network, "num_atoms", None) = None

\* C12: a network without num_atoms fails the constructor at once.  Once the
\* constructor has run on a network that has no attribute num_atoms, or whose
\* num_atoms is None, it has failed with TypeError, whatever n_step_update
\* and state_spec are, and the agent has no attribute: no support, nothing
\* the parent's constructor sets, no policy.
C12_MissingNumAtomsFailsFirst ==
    (pc # "new" /\ WithoutNumAtoms) =>
        /\ pc = "failed"
        /\ ret.status = "TypeError"
        /\ DOMAIN self = {}

\* the attribute is missing altogether, on a stateful network with n-step
\* updates, which the parent's constructor would refuse were it reached
C12_Witness ==
    /\ pc = "failed"
    /\ "num_atoms" \notin DOMAIN args.categorical_q_network
    /\ NStepWithStatefulNetwork
    /\ ret.status = "TypeError"
    /\ DOMAIN self = {}

---------------------------------------------------------------------------
(* The first moment of a projection *)

\* x brought into [v_min, v_max]
Clipped(x) == IF x < v_min THEN v_min ELSE IF x > v_max THEN v_max ELSE x

\* sum_j target_support[j] * projected[b, j]
ProjectedMoment(b) ==
    FracSum([j \in Atoms |->
        FracMul(Frac(target_support.flat[j], 1), result.projection[b][j])])

\* sum_i clip(supports[b, i], v_min, v_max) * weights[b, i]
ClippedMoment(b) ==
    FracSum([i \in 1..Len(supports[b]) |->
        FracMul(Frac(Clipped(supports[b][i]), 1), weights[b][i])])

\* sum_i supports[b, i] * weights[b, i]
SourceMoment(b) ==
    FracSum([i \in 1..Len(supports[b]) |->
        FracMul(Frac(supports[b][i], 1), weights[b][i])])

NothingClipped(b) ==
    \A i \in 1..Len(supports[b]) : v_min <= supports[b][i] /\ supports[b][i] <= v_max

\* C13: the first moment is kept.  On a call that meets the contract, for
\* every row the first moment of the projection on target_support is the
\* first moment of the source points clipped to [v_min, v_max] under their
\* weights; for a row none of whose points is clipped it is the first moment
\* of the source distribution itself.
C13_FirstMomentPreserved ==
    (pc = "done" /\ ValidCall) =>
        /\ result.status = "ok"
        /\ \A b \in Rows :
            /\ FracEq(ProjectedMoment(b), ClippedMoment(b))
            /\ NothingClipped(b) => FracEq(ProjectedMoment(b), SourceMoment(b))

\* one row has weight on a point below v_min and on a point above v_max;
\* another has every point inside, weight on a point that lies between two
\* atoms, and a moment that is not 0
C13_Witness ==
    /\ pc = "done" /\ ValidCall /\ result.status = "ok"
    /\ \E b \in Rows :
        \E i, k \in 1..Len(supports[b]) :
            /\ supports[b][i] < v_min /\ weights[b][i].num > 0
            /\ supports[b][k] > v_max /\ weights[b][k].num > 0
    /\ \E b \in Rows :
        /\ NothingClipped(b)
        /\ \E i \in 1..Len(supports[b]) :
            /\ \A j \in Atoms : supports[b][i] # target_support.flat[j]
            /\ weights[b][i].num > 0
        /\ ~FracEq(ProjectedMoment(b), Frac(0, 1))

=============================================================================
